---- MODULE Spec2Model ----
(***************************************************************************)
(* State-machine model of the rental backend: the cart routes              *)
(* (src/routes/cart.js), the product routes (src/routes/products.js), the  *)
(* order routes (the second module of src/index.js), the Auth Gate         *)
(* (src/utils/auth.js) and the persistence gateway (src/utils/db.js).      *)
(*                                                                         *)
(* The store is a relational database reached through a connection pool.   *)
(* Every statement (db.query -> pool.execute, or pool.query) runs on       *)
(* whichever pooled connection the pool hands out; the handler does not    *)
(* choose it.  A connection with an open transaction buffers its writes    *)
(* until COMMIT, discards them on ROLLBACK, and a connection without one   *)
(* commits each statement at once (autocommit).  Row locks and foreign     *)
(* keys are not modelled.                                                  *)
(***************************************************************************)
EXTENDS Integers, Sequences, FiniteSets, TLC

VARIABLES
  db,       \* the committed tables: products, cart, orders, order_items
  conn,     \* per pooled connection: open transaction and its buffered writes
  nextId,   \* AUTO_INCREMENT counters of cart, orders, order_items
  req,      \* the Place Order requests in flight, one per slot
  last,     \* request and response of the last completed single-step handler
  NODE_ENV  \* process.env.NODE_ENV, fixed when the server starts

vars == <<db, conn, nextId, req, last, NODE_ENV>>

---------------------------------------------------------------------------
\* Values

\* JS null / undefined / missing field, SQL NULL.
NULL == 0

\* Time is counted in units of 1/UnitsPerDay of a day.
UnitsPerDay == 2

\* new Date().setHours(0, 0, 0, 0): the start of the current day.
Today == 2

\* new Date(x) for a string that is no date: getTime() is NaN.
InvalidDate == -1

\* The quantity 1.5: not below 1 and not an integer.
OneAndAHalf == 15

\* Bound of the model: the number of rows ever inserted into the cart.
MaxCartRows == 2

Conns == {1, 2}
Slots == {1, 2}
ProductIds == {1, 2}

\* The products table holds at most MaxProducts rows; a slot whose row has
\* id NULL holds no row.
MaxProducts == 3
\* Bound of the model: the number of rows ever inserted into users.
MaxUsers == 4

\* Bound of the model: the scenarios that write beside a placement do so
\* only while every open transaction buffers fewer statements than this.
MaxLog == 2
ProductSlots == 1..MaxProducts
NoProductRow ==
  [id |-> NULL, name |-> NULL, image_url |-> NULL, price_per_day |-> NULL,
   sale_price |-> NULL, available |-> FALSE, is_deleted |-> FALSE]

\* The users table as first deployed; user 3 has cleared the email by a
\* profile update.
Users ==
  [u \in {1, 2, 3} |->
     [id |-> u, username |-> "user",
      email |-> IF u = 1 THEN "u@x.y" ELSE IF u = 2 THEN "v@x.y" ELSE "",
      address |-> "addr", phone |-> "555", role |-> "client"]]

\* SELECT ... FROM users WHERE id = ? in view v.
UserRows(v, userId) ==
  IF \E u \in v.users : u.id = userId
  THEN <<CHOOSE u \in v.users : u.id = userId>>
  ELSE <<>>

\* The products table as first deployed.
InitProducts ==
  [p \in ProductSlots |->
     IF p \in ProductIds
     THEN [id |-> p, name |-> p, image_url |-> p,
           price_per_day |-> 20, sale_price |-> IF p = 2 THEN 15 ELSE NULL,
           available |-> TRUE, is_deleted |-> FALSE]
     ELSE NoProductRow]

NoCartItem ==
  [id |-> NULL, user_id |-> NULL, guest_session_id |-> NULL, product_id |-> NULL,
   start_date |-> NULL, end_date |-> NULL, quantity |-> NULL, price_snapshot |-> NULL,
   product_name |-> NULL, price_per_day |-> NULL, image_url |-> NULL]

NoProduct == [id |-> NULL, price_per_day |-> NULL, image_url |-> NULL]

---------------------------------------------------------------------------
\* Persistence gateway: the pool, its connections and the statements

\* An UPDATE of orders that has no WHERE clause.
StatusMatchedAll(v, id) == v.orders

\* The rows "UPDATE orders SET status = ? WHERE id = ?" matches.
StatusMatched(v, id) == {o \in v.orders : o.id = id}

\* One buffered or committed write.
ApplyWrite(op, d) ==
  CASE op.t = "insCart"    -> [d EXCEPT !.cart = @ \cup {op.row}]
    [] op.t = "delCart"    -> [d EXCEPT !.cart = {x \in @ : x.id # op.row.id}]
    [] op.t = "updCart"    ->
         [d EXCEPT !.cart = {IF x.id = op.row.id
                             THEN [x EXCEPT !.quantity = op.row.quantity]
                             ELSE x : x \in @}]
    [] op.t = "insOrder"   -> [d EXCEPT !.orders = @ \cup {op.row}]
    [] op.t = "insItem"    -> [d EXCEPT !.order_items = @ \cup {op.row}]
    [] op.t = "insProduct" -> [d EXCEPT !.products[op.row.id] = op.row]
    [] op.t = "updOrder"   ->
         [d EXCEPT !.orders = {IF x \in StatusMatched(d, op.row.id)
                               THEN [x EXCEPT !.status = op.row.status]
                               ELSE x : x \in @}]
    [] op.t = "insUser"    -> [d EXCEPT !.users = @ \cup {op.row}]
    [] op.t = "updUser"    ->
         [d EXCEPT !.users =
            {IF x.id = op.row.id
             THEN [f \in DOMAIN x |->
                     IF f \in DOMAIN op.row.set THEN op.row.set[f] ELSE x[f]]
             ELSE x : x \in @}]
    [] op.t = "updProduct" ->
         [d EXCEPT !.products[op.row.id] =
            [f \in DOMAIN @ |-> IF f \in DOMAIN op.row.set THEN op.row.set[f] ELSE @[f]]]

RECURSIVE ApplyAll(_, _)
ApplyAll(ops, d) ==
  IF ops = <<>> THEN d ELSE ApplyAll(Tail(ops), ApplyWrite(Head(ops), d))

\* What a statement running on connection c reads: the committed rows and
\* the writes buffered by the transaction open on c.
View(c) == ApplyAll(conn[c].w, db)

\* A write statement on connection c: buffered if c has a transaction open,
\* committed at once otherwise.
Write(c, ops) ==
  IF conn[c].intx
  THEN /\ conn' = [conn EXCEPT ![c].w = @ \o ops]
       /\ db' = db
  ELSE /\ db' = ApplyAll(ops, db)
       /\ conn' = conn

\* START TRANSACTION on connection c, issued by slot r.  A transaction
\* already open on c is committed implicitly.
StartTransaction(c, r) ==
  /\ db' = ApplyAll(conn[c].w, db)
  /\ conn' = [conn EXCEPT ![c] = [intx |-> TRUE, w |-> <<>>, by |-> r]]

Commit(c) ==
  /\ db' = ApplyAll(conn[c].w, db)
  /\ conn' = [conn EXCEPT ![c] = [intx |-> FALSE, w |-> <<>>, by |-> NULL]]

Rollback(c) ==
  /\ db' = db
  /\ conn' = [conn EXCEPT ![c] = [intx |-> FALSE, w |-> <<>>, by |-> NULL]]

---------------------------------------------------------------------------
\* Auth Gate (src/utils/auth.js)

NoUser == [id |-> NULL, role |-> "none"]
NoToken == [valid |-> "none", id |-> NULL, role |-> "none"]

\* Request credentials: the Authorization header ("none": absent, "bearer":
\* "Bearer <token>", "other": any other scheme), the token it carries, and
\* the guest session id supplied by body.guest_session_id or
\* query.guestSessionId, and the guestSessionId cookie the client sends.
Client(u) ==
  [authorization |-> "bearer", token |-> [valid |-> "ok", id |-> u, role |-> "client"],
   guest |-> NULL, cookie |-> NULL]
Admin ==
  [authorization |-> "bearer", token |-> [valid |-> "ok", id |-> 9, role |-> "admin"],
   guest |-> NULL, cookie |-> NULL]
Guest(g) ==
  [authorization |-> "none", token |-> NoToken, guest |-> g, cookie |-> NULL]
CookieGuest(g) ==
  [authorization |-> "none", token |-> NoToken, guest |-> NULL, cookie |-> g]

\* req.cookies?.guestSessionId.  No middleware of src/index.js parses the
\* Cookie header, so req.cookies is undefined whatever the client sends.
cookieGuestSessionId(h) == NULL

\* (req.body && req.body.guest_session_id) ||
\* (req.query && req.query.guestSessionId) || req.cookies?.guestSessionId
suppliedGuestSessionId(h) ==
  IF h.guest # NULL THEN h.guest ELSE cookieGuestSessionId(h)

\* authenticate without "req.guestSessionId = null" for a verified token.
authenticateKeepsGuest(h, fresh) ==
  IF h.authorization = "none"
  THEN [status |-> 0, user |-> NoUser,
        guestSessionId |-> IF suppliedGuestSessionId(h) # NULL
                           THEN suppliedGuestSessionId(h) ELSE fresh,
        cookie |-> IF suppliedGuestSessionId(h) # NULL THEN NULL ELSE fresh]
  ELSE IF h.authorization # "bearer" \/ h.token.valid # "ok" \/ h.token.id = NULL
  THEN [status |-> 401, user |-> NoUser, guestSessionId |-> NULL, cookie |-> NULL]
  ELSE [status |-> 0, user |-> [id |-> h.token.id, role |-> h.token.role],
        guestSessionId |-> suppliedGuestSessionId(h), cookie |-> NULL]

\* authenticate: status 0 stands for next(); fresh is what
\* crypto.randomUUID() returns when it is called.
authenticate(h, fresh) ==
  IF h.authorization = "none" /\ suppliedGuestSessionId(h) # NULL
  THEN [status |-> 0, user |-> NoUser,
        guestSessionId |-> suppliedGuestSessionId(h), cookie |-> NULL]
  ELSE IF h.authorization = "none" /\ suppliedGuestSessionId(h) = NULL
  THEN [status |-> 0, user |-> NoUser, guestSessionId |-> fresh, cookie |-> fresh]
  ELSE IF h.authorization # "bearer"
  THEN [status |-> 401, user |-> NoUser, guestSessionId |-> NULL, cookie |-> NULL]
  ELSE IF h.token.valid # "ok" \/ h.token.id = NULL
  THEN [status |-> 401, user |-> NoUser, guestSessionId |-> NULL, cookie |-> NULL]
  ELSE [status |-> 0, user |-> [id |-> h.token.id, role |-> h.token.role],
        guestSessionId |-> NULL, cookie |-> NULL]

\* A role check that lets every caller through.
restrictToAnyone(role, user) == TRUE

\* restrictTo(...roles): !req.user || !roles.includes(req.user.role) is
\* answered 401.
restrictTo(role, user) == user.id # NULL /\ user.role = role

\* An owner predicate that accepts every row.
OwnedByAnyone(x, userId, guestSessionId) == TRUE

\* The owner predicate every owner-scoped cart statement uses:
\* "... AND user_id = ?" for a registered user, "... AND guest_session_id = ?"
\* otherwise.
OwnedBy(x, userId, guestSessionId) ==
  IF userId # NULL THEN x.user_id = userId ELSE x.guest_session_id = guestSessionId

---------------------------------------------------------------------------
\* Pricing (src/index.js, place order)

\* Math.ceil(a / b) for b > 0.
Ceil(a, b) == -((-a) \div b)

\* The rental length rounded down.
daysRoundedDown(start, end) == (end - start) \div UnitsPerDay

\* Math.ceil((end - start) / (1000 * 60 * 60 * 24))
days(start, end) == Ceil(end - start, UnitsPerDay)

totalPrice(start, end, price_per_day, qty) == days(start, end) * price_per_day * qty

\* isNaN(start.getTime()) || isNaN(end.getTime()) || start >= end
InvalidRange(start, end) ==
  start = InvalidDate \/ end = InvalidDate \/ start >= end

\* product.sale_price !== null ? product.sale_price : product.price_per_day
effectivePrice(product) ==
  IF product.sale_price # NULL THEN product.sale_price ELSE product.price_per_day

---------------------------------------------------------------------------
\* Responses of the single-step handlers

NoHeader ==
  [authorization |-> "none", token |-> NoToken, guest |-> NULL, cookie |-> NULL]

Idle ==
  [handler |-> "none", status |-> 0, h |-> NoHeader, id |-> NULL,
   quantity |-> NULL, value |-> NULL, rows |-> {}]

\* A response to a request that carries a body value besides a quantity.
RespondTo(handler, status, h, id, quantity, value, rows) ==
  /\ last' = [handler |-> handler, status |-> status, h |-> h, id |-> id,
              quantity |-> quantity, value |-> value, rows |-> rows]
  /\ UNCHANGED NODE_ENV

Respond(handler, status, h, id, quantity, rows) ==
  RespondTo(handler, status, h, id, quantity, NULL, rows)

StoreUnchanged == UNCHANGED <<db, conn, nextId>>

---------------------------------------------------------------------------
\* Cart Store (src/routes/cart.js)

\* new Date(a) >= new Date(b), new Date(a) < b: false when a date is NaN.
DateGE(a, b) == a # InvalidDate /\ b # InvalidDate /\ a >= b
DateLT(a, b) == a # InvalidDate /\ b # InvalidDate /\ a < b

\* A quantity test that accepts every number.
isIntegerAny(quantity) == TRUE

\* Number.isInteger(quantity), over the quantities of the model.
isInteger(quantity) == quantity # OneAndAHalf

\* The date columns of cart: a statement that binds a string that is no
\* date fails.
IncorrectDateValue(start_date, end_date) ==
  start_date = InvalidDate \/ end_date = InvalidDate

\* POST /cart.  The product SELECT runs on connection c1, the INSERT on c2;
\* a failing INSERT is answered 500.
CartAdd(h, fresh, product_id, start_date, end_date, quantity, c1, c2) ==
  LET a == authenticate(h, fresh)
      userId == a.user.id
      guestSessionId == a.guestSessionId
      found == {p \in {View(c1).products[i] : i \in ProductSlots} :
                  p.id = product_id /\ p.available}
      product == CHOOSE p \in found : TRUE
      row == [id |-> nextId.cart, user_id |-> userId,
              guest_session_id |-> guestSessionId, product_id |-> product_id,
              start_date |-> start_date, end_date |-> end_date,
              quantity |-> quantity, price_snapshot |-> effectivePrice(product)]
      body == [product_id |-> product_id, start_date |-> start_date,
               end_date |-> end_date]
      Reply(status) ==
        RespondTo("cartAdd", status, h, NULL, quantity, body, {}) /\ StoreUnchanged
  IN  /\ nextId.cart <= MaxCartRows
      /\ UNCHANGED req
      /\ IF a.status # 0 THEN Reply(a.status)
         ELSE IF product_id = NULL \/ start_date = NULL \/ end_date = NULL
                 \/ quantity = NULL THEN Reply(400)
         ELSE IF userId = NULL /\ guestSessionId = NULL THEN Reply(400)
         ELSE IF DateGE(start_date, end_date) THEN Reply(400)
         ELSE IF DateLT(start_date, Today) THEN Reply(400)
         ELSE IF ~isInteger(quantity) \/ quantity < 1 THEN Reply(400)
         ELSE IF found = {} THEN Reply(404)
         ELSE IF IncorrectDateValue(start_date, end_date) THEN Reply(500)
         ELSE /\ Write(c2, <<[t |-> "insCart", row |-> row]>>)
              /\ nextId' = [nextId EXCEPT !.cart = @ + 1]
              /\ RespondTo("cartAdd", 200, h, row.id, quantity, body, {row})

\* GET /cart selecting the product's live price_per_day.
CartRowsLivePrice(c, userId, guestSessionId) ==
  LET v == View(c)
  IN  {[id |-> x.id, product_id |-> x.product_id, quantity |-> x.quantity,
        price_snapshot |-> x.price_snapshot,
        price_per_day |-> v.products[x.product_id].price_per_day,
        name |-> v.products[x.product_id].name,
        image_url |-> v.products[x.product_id].image_url] :
         x \in {y \in v.cart : OwnedBy(y, userId, guestSessionId)}}

\* The rows GET /cart returns: the owner's cart rows joined with their
\* product, with price_snapshot selected as price_per_day.
CartRows(c, userId, guestSessionId) ==
  LET v == View(c)
  IN  {[id |-> x.id, product_id |-> x.product_id, quantity |-> x.quantity,
        price_snapshot |-> x.price_snapshot, price_per_day |-> x.price_snapshot,
        name |-> v.products[x.product_id].name,
        image_url |-> v.products[x.product_id].image_url] :
         x \in {y \in v.cart : OwnedBy(y, userId, guestSessionId)}}

\* GET /cart
CartList(h, fresh, c) ==
  LET a == authenticate(h, fresh)
      userId == a.user.id
      guestSessionId == a.guestSessionId
  IN  /\ UNCHANGED req
      /\ StoreUnchanged
      /\ IF a.status # 0 THEN Respond("cartList", a.status, h, NULL, NULL, {})
         ELSE IF userId = NULL /\ guestSessionId = NULL
         THEN Respond("cartList", 400, h, NULL, NULL, {})
         ELSE Respond("cartList", 200, h, NULL, NULL,
                      CartRows(c, userId, guestSessionId))

\* An UPDATE or DELETE whose WHERE clause filters by the item id alone.
MatchedById(c, cartId, userId, guestSessionId) ==
  {x \in View(c).cart : x.id = cartId}

\* The cart rows an owner-scoped UPDATE or DELETE on connection c matches.
Matched(c, cartId, userId, guestSessionId) ==
  {x \in View(c).cart : x.id = cartId /\ OwnedBy(x, userId, guestSessionId)}

\* PUT /cart/:id
CartUpdate(h, fresh, cartId, quantity, c) ==
  LET a == authenticate(h, fresh)
      userId == a.user.id
      guestSessionId == a.guestSessionId
      m == Matched(c, cartId, userId, guestSessionId)
      Reply(status) ==
        Respond("cartUpdate", status, h, cartId, quantity, {}) /\ StoreUnchanged
  IN  /\ UNCHANGED req
      /\ IF a.status # 0 THEN Reply(a.status)
         ELSE IF userId = NULL /\ guestSessionId = NULL THEN Reply(400)
         ELSE IF ~isInteger(quantity) \/ quantity < 1 THEN Reply(400)
         ELSE IF m = {} THEN Reply(404)
         ELSE /\ Write(c, <<[t |-> "updCart",
                            row |-> [id |-> cartId, quantity |-> quantity]]>>)
              /\ UNCHANGED nextId
              /\ Respond("cartUpdate", 200, h, cartId, quantity, {})

\* DELETE /cart/:id
CartRemove(h, fresh, cartId, c) ==
  LET a == authenticate(h, fresh)
      userId == a.user.id
      guestSessionId == a.guestSessionId
      m == Matched(c, cartId, userId, guestSessionId)
      Reply(status) ==
        Respond("cartRemove", status, h, cartId, NULL, {}) /\ StoreUnchanged
  IN  /\ UNCHANGED req
      /\ IF a.status # 0 THEN Reply(a.status)
         ELSE IF userId = NULL /\ guestSessionId = NULL THEN Reply(400)
         ELSE IF m = {} THEN Reply(404)
         ELSE /\ Write(c, <<[t |-> "delCart", row |-> [id |-> cartId]]>>)
              /\ UNCHANGED nextId
              /\ Respond("cartRemove", 200, h, cartId, NULL, {})

---------------------------------------------------------------------------
\* Catalog (src/routes/products.js)

\* A body field that was not sent (undefined).
Undefined == -2

\* PUT /products/:id with name, regular_price, sale_price, available and
\* the URL the uploaded imageBase64 gets (no description, category or
\* gallery).  The SELECT runs on connection c1, the UPDATE on c2.
ProductEdit(h, fresh, id, name, image_url, regular_price, sale_price, available, c1, c2) ==
  LET a == authenticate(h, fresh)
      products == {p \in {View(c1).products[i] : i \in ProductSlots} :
                     p.id = id /\ ~p.is_deleted}
      m == {p \in {View(c2).products[i] : i \in ProductSlots} :
              p.id = id /\ ~p.is_deleted}
      priceFields ==
        IF regular_price # Undefined
        THEN [price_per_day |-> regular_price, available |-> available]
        ELSE [available |-> available]
      \* updateFields.sale_price = parseFloat(sale_price) || null
      saleFields ==
        IF sale_price # Undefined
        THEN [f \in DOMAIN priceFields \cup {"sale_price"} |->
                IF f = "sale_price" THEN sale_price ELSE priceFields[f]]
        ELSE priceFields
      nameFields ==
        IF name # Undefined
        THEN [f \in DOMAIN saleFields \cup {"name"} |->
                IF f = "name" THEN name ELSE saleFields[f]]
        ELSE saleFields
      updateFields ==
        IF image_url # Undefined
        THEN [f \in DOMAIN nameFields \cup {"image_url"} |->
                IF f = "image_url" THEN image_url ELSE nameFields[f]]
        ELSE nameFields
      Reply(status) ==
        Respond("productUpdate", status, h, id, NULL, {}) /\ StoreUnchanged
  IN  /\ UNCHANGED req
      /\ IF a.status # 0 THEN Reply(a.status)
         ELSE IF ~restrictTo("admin", a.user) THEN Reply(401)
         ELSE IF products = {} THEN Reply(404)
         ELSE IF regular_price # Undefined /\ regular_price <= 0 THEN Reply(400)
         ELSE IF m = {} THEN Reply(404)
         ELSE /\ Write(c2, <<[t |-> "updProduct",
                             row |-> [id |-> id, set |-> updateFields]]>>)
              /\ UNCHANGED nextId
              /\ Respond("productUpdate", 200, h, id, NULL, {})

\* PUT /products/:id with regular_price, sale_price and available only.
ProductUpdate(h, fresh, id, regular_price, sale_price, available, c1, c2) ==
  ProductEdit(h, fresh, id, Undefined, Undefined, regular_price, sale_price,
              available, c1, c2)

\* The rows of the products table in view v.
ProductRows(v) == {v.products[i] : i \in ProductSlots} \ {NoProductRow}

\* POST /products with name, regular_price, sale_price and available in
\* the body (a description, no category, no images).
ProductCreate(h, fresh, name, regular_price, sale_price, available, c) ==
  LET a == authenticate(h, fresh)
      row == [id |-> nextId.products, name |-> name, image_url |-> NULL,
              price_per_day |-> regular_price, sale_price |-> sale_price,
              available |-> available, is_deleted |-> FALSE]
      Reply(status) ==
        Respond("productCreate", status, h, NULL, NULL, {}) /\ StoreUnchanged
  IN  /\ nextId.products <= MaxProducts
      /\ UNCHANGED req
      /\ IF a.status # 0 THEN Reply(a.status)
         ELSE IF ~restrictTo("admin", a.user) THEN Reply(401)
         ELSE IF name = NULL \/ regular_price = NULL THEN Reply(400)
         ELSE IF regular_price <= 0 THEN Reply(400)
         ELSE IF sale_price # NULL /\ sale_price <= 0 THEN Reply(400)
         ELSE /\ Write(c, <<[t |-> "insProduct", row |-> row]>>)
              /\ nextId' = [nextId EXCEPT !.products = @ + 1]
              /\ Respond("productCreate", 201, h, row.id, NULL, {})

\* The rows "UPDATE products SET is_deleted = TRUE WHERE id = ? AND
\* is_deleted = FALSE" matches.
DeleteMatched(v, id) == {p \in ProductRows(v) : p.id = id /\ ~p.is_deleted}

\* DELETE /products/:id
ProductDelete(h, fresh, id, c) ==
  LET a == authenticate(h, fresh)
      Reply(status) ==
        Respond("productDelete", status, h, id, NULL, {}) /\ StoreUnchanged
  IN  /\ UNCHANGED req
      /\ IF a.status # 0 THEN Reply(a.status)
         ELSE IF ~restrictTo("admin", a.user) THEN Reply(401)
         ELSE IF DeleteMatched(View(c), id) = {} THEN Reply(404)
         ELSE /\ Write(c, <<[t |-> "updProduct",
                            row |-> [id |-> id, set |-> [is_deleted |-> TRUE]]]>>)
              /\ UNCHANGED nextId
              /\ Respond("productDelete", 200, h, id, NULL, {})

\* A restore whose UPDATE filters by the product id alone.
RestoreMatchedById(v, id) == {p \in ProductRows(v) : p.id = id}

\* The rows "UPDATE products SET is_deleted = FALSE WHERE id = ? AND
\* is_deleted = TRUE" matches.
RestoreMatched(v, id) == {p \in ProductRows(v) : p.id = id /\ p.is_deleted}

\* PUT /products/:id/restore
ProductRestore(h, fresh, id, c) ==
  LET a == authenticate(h, fresh)
      Reply(status) ==
        Respond("productRestore", status, h, id, NULL, {}) /\ StoreUnchanged
  IN  /\ UNCHANGED req
      /\ IF a.status # 0 THEN Reply(a.status)
         ELSE IF ~restrictTo("admin", a.user) THEN Reply(401)
         ELSE IF RestoreMatched(View(c), id) = {} THEN Reply(404)
         ELSE /\ Write(c, <<[t |-> "updProduct",
                            row |-> [id |-> id, set |-> [is_deleted |-> FALSE]]]>>)
              /\ UNCHANGED nextId
              /\ Respond("productRestore", 200, h, id, NULL, {})

\* A public listing that filters by availability alone.
PublicProductsAvailable(v) == {p \in ProductRows(v) : p.available}

\* SELECT * FROM products WHERE available = TRUE AND is_deleted = FALSE
\* (without the optional category filter).
PublicProducts(v) == {p \in ProductRows(v) : p.available /\ ~p.is_deleted}

\* GET /products (public)
ProductList(c) ==
  /\ UNCHANGED req
  /\ StoreUnchanged
  /\ Respond("productList", 200, NoHeader, NULL, NULL, PublicProducts(View(c)))

\* GET /products/:id (public)
ProductGet(id, c) ==
  LET products == {p \in ProductRows(View(c)) : p.id = id /\ ~p.is_deleted}
  IN  /\ UNCHANGED req
      /\ StoreUnchanged
      /\ IF products = {}
         THEN Respond("productGet", 404, NoHeader, id, NULL, {})
         ELSE Respond("productGet", 200, NoHeader, id, NULL, products)

\* GET /products/deleted (admin only)
ProductDeleted(h, fresh, c) ==
  LET a == authenticate(h, fresh)
      Reply(status, rows) ==
        Respond("productDeleted", status, h, NULL, NULL, rows)
  IN  /\ UNCHANGED req
      /\ StoreUnchanged
      /\ IF a.status # 0 THEN Reply(a.status, {})
         ELSE IF ~restrictTo("admin", a.user) THEN Reply(401, {})
         ELSE Reply(200, {p \in ProductRows(View(c)) : p.is_deleted})

---------------------------------------------------------------------------
\* Order Transaction Manager (src/index.js, POST /orders)

NoContact == [name |-> "", email |-> "", address |-> "", phone |-> ""]

\* An email test that accepts every string.
ValidEmailAny(email) == TRUE

\* /^[^\s@]+@[^\s@]+\.[^\s@]+$/.test(email), over the emails of the model.
ValidEmail(email) == email \in {"g@x.y", "u@x.y", "v@x.y", "w@x.y"}

IdleRequest ==
  [pc |-> "idle", h |-> NoHeader, userId |-> NULL, guestSessionId |-> NULL,
   contact |-> NoContact, cartItems |-> <<>>, i |-> 0, orderId |-> NULL,
   cartItem |-> NoCartItem, product |-> NoProduct, total |-> 0,
   error |-> "", status |-> 0, details |-> "",
   began |-> FALSE, rolledBack |-> FALSE, valid |-> FALSE,
   ordered |-> {}, deleted |-> {}]

\* Where the loop over cartItems goes next: line j if there is one (its
\* cart fetch if it has a cartId, its product lookup otherwise), else COMMIT.
LinePc(cartItems, j) ==
  IF j > Len(cartItems) THEN "commit"
  ELSE IF cartItems[j].cartId # NULL THEN "cart" ELSE "product"

\* Whether, when the request arrives, every line references a different
\* committed cart item of the caller and carries that item's product, which
\* is available.
ValidLines(cartItems, userId, guestSessionId) ==
  /\ \A j \in 1..Len(cartItems) :
       \E x \in db.cart :
         /\ x.id = cartItems[j].cartId
         /\ OwnedBy(x, userId, guestSessionId)
         /\ x.product_id = cartItems[j].productId
         /\ db.products[x.product_id].available
  /\ \A j, k \in 1..Len(cartItems) :
       j # k => cartItems[j].cartId # cartItems[k].cartId

Step(r, fields) ==
  /\ req' = [req EXCEPT ![r] = [f \in DOMAIN @ |->
                                  IF f \in DOMAIN fields THEN fields[f] ELSE @[f]]]
  /\ last' = Idle
  /\ UNCHANGED NODE_ENV

\* The handler up to START TRANSACTION: identity, line list and contact
\* fields.  The users SELECT runs on any connection of the pool.
PlaceOrder(r, h, fresh, body) ==
  \E c \in Conns :
  LET a == authenticate(h, fresh)
      userId == a.user.id
      guestSessionId == body.guestSessionId
      user == UserRows(View(c), userId)
      Reply(status) ==
        Step(r, [pc |-> "done", h |-> h, userId |-> userId,
                 guestSessionId |-> guestSessionId, contact |-> body.contact,
                 cartItems |-> body.cartItems, status |-> status])
      Begin(contact) ==
        Step(r, [pc |-> "start", h |-> h, userId |-> userId,
                 guestSessionId |-> guestSessionId,
                 cartItems |-> body.cartItems, contact |-> contact,
                 valid |-> ValidLines(body.cartItems, userId, guestSessionId)])
  IN  /\ req[r].pc = "idle"
      /\ StoreUnchanged
      /\ IF a.status # 0 THEN Reply(a.status)
         ELSE IF body.cartItems = <<>> THEN Reply(400)
         ELSE IF userId = NULL /\ guestSessionId = NULL THEN Reply(400)
         ELSE IF userId # NULL
         THEN IF user = <<>> THEN Reply(404)
              ELSE IF user[1].email = "" THEN Reply(400)
              ELSE Begin([name |-> user[1].username, email |-> user[1].email,
                          address |-> user[1].address, phone |-> user[1].phone])
         ELSE IF body.contact.name = "" \/ body.contact.email = ""
                 \/ body.contact.address = "" \/ body.contact.phone = ""
         THEN Reply(400)
         ELSE IF ~ValidEmail(body.contact.email) THEN Reply(400)
         ELSE Begin(body.contact)

\* await pool.query('START TRANSACTION')
PlaceStart(r, c) ==
  /\ req[r].pc = "start"
  /\ StartTransaction(c, r)
  /\ UNCHANGED nextId
  /\ Step(r, [pc |-> "order", began |-> TRUE])

\* INSERT INTO orders ... 'pending'
PlaceInsertOrder(r, c) ==
  LET q == req[r]
      row == [id |-> nextId.orders, user_id |-> q.userId,
              guest_session_id |-> IF q.userId # NULL THEN NULL ELSE q.guestSessionId,
              name |-> q.contact.name, email |-> q.contact.email,
              address |-> q.contact.address, phone |-> q.contact.phone,
              status |-> "pending"]
  IN  /\ q.pc = "order"
      /\ Write(c, <<[t |-> "insOrder", row |-> row]>>)
      /\ nextId' = [nextId EXCEPT !.orders = @ + 1]
      /\ Step(r, [pc |-> LinePc(q.cartItems, 1), i |-> 1, orderId |-> row.id])

\* The owner-scoped cart fetch of the current line, joined with the cart
\* item's product.
PlaceFetchCart(r, c) ==
  LET q == req[r]
      line == q.cartItems[q.i]
      v == View(c)
      items == {x \in v.cart : x.id = line.cartId
                                /\ OwnedBy(x, q.userId, q.guestSessionId)}
      x == CHOOSE y \in items : TRUE
      p == v.products[x.product_id]
      cartItem == [id |-> x.id, user_id |-> x.user_id,
                   guest_session_id |-> x.guest_session_id,
                   product_id |-> x.product_id, start_date |-> x.start_date,
                   end_date |-> x.end_date, quantity |-> x.quantity,
                   price_snapshot |-> x.price_snapshot, product_name |-> p.name,
                   price_per_day |-> p.price_per_day, image_url |-> p.image_url]
  IN  /\ q.pc = "cart"
      /\ StoreUnchanged
      /\ IF items = {}
         THEN Step(r, [pc |-> "rollback", error |-> "Cart item not found"])
         ELSE Step(r, [pc |-> "product", cartItem |-> cartItem])

\* The product lookup by the line's productId, then the checks and the
\* price computation that follow it without another await.
PlaceFetchProduct(r, c) ==
  LET q == req[r]
      line == q.cartItems[q.i]
      cartItem == IF line.cartId # NULL THEN q.cartItem ELSE NoCartItem
      found == {p \in {View(c).products[i] : i \in ProductSlots} :
                  p.id = line.productId /\ p.available}
      p == CHOOSE y \in found : TRUE
      product == [id |-> p.id, price_per_day |-> p.price_per_day,
                  image_url |-> p.image_url]
      startDate == IF cartItem.id # NULL THEN cartItem.start_date ELSE line.start_date
      endDate == IF cartItem.id # NULL THEN cartItem.end_date ELSE line.end_date
      qty == IF cartItem.id # NULL THEN cartItem.quantity ELSE line.quantity
      Throw(message) ==
        Step(r, [pc |-> "rollback", error |-> message, cartItem |-> cartItem])
  IN  /\ q.pc = "product"
      /\ StoreUnchanged
      /\ IF line.productId = NULL THEN Throw("Bind parameters must not contain undefined")
         ELSE IF found = {} THEN Throw("Product not found or unavailable")
         ELSE IF startDate = NULL \/ endDate = NULL \/ qty = NULL
         THEN Throw("Missing required fields")
         ELSE IF InvalidRange(startDate, endDate) THEN Throw("Invalid date range")
         ELSE Step(r, [pc |-> "item", cartItem |-> cartItem, product |-> product,
                       total |-> totalPrice(startDate, endDate,
                                            product.price_per_day, qty)])

\* INSERT INTO order_items.  The product row was selected without its name,
\* so a line without a cart item binds undefined for product_name and the
\* statement throws; storeError is any other failure of the statement.
PlaceInsertItem(r, c, storeError) ==
  LET q == req[r]
      line == q.cartItems[q.i]
      cartItem == q.cartItem
      row == [id |-> nextId.order_items, order_id |-> q.orderId,
              product_id |-> q.product.id, product_name |-> cartItem.product_name,
              start_date |-> IF cartItem.id # NULL THEN cartItem.start_date
                             ELSE line.start_date,
              end_date |-> IF cartItem.id # NULL THEN cartItem.end_date
                           ELSE line.end_date,
              quantity |-> IF cartItem.id # NULL THEN cartItem.quantity
                           ELSE line.quantity,
              price_per_day |-> q.product.price_per_day,
              total_price |-> q.total, image_url |-> q.product.image_url]
  IN  /\ q.pc = "item"
      /\ IF cartItem.id = NULL
         THEN /\ StoreUnchanged
              /\ Step(r, [pc |-> "rollback",
                          error |-> "Bind parameters must not contain undefined"])
         ELSE IF storeError
         THEN /\ StoreUnchanged
              /\ Step(r, [pc |-> "rollback", error |-> "store error"])
         ELSE /\ Write(c, <<[t |-> "insItem", row |-> row]>>)
              /\ nextId' = [nextId EXCEPT !.order_items = @ + 1]
              /\ Step(r, [pc |-> IF line.cartId # NULL THEN "delete"
                                 ELSE LinePc(q.cartItems, q.i + 1),
                          i |-> IF line.cartId # NULL THEN q.i ELSE q.i + 1,
                          ordered |-> q.ordered \cup {cartItem.id}])

\* The owner-scoped DELETE of the line's cart item; its affectedRows is
\* not read.
PlaceDeleteCart(r, c) ==
  LET q == req[r]
      line == q.cartItems[q.i]
      m == Matched(c, line.cartId, q.userId, q.guestSessionId)
  IN  /\ q.pc = "delete"
      /\ IF m = {} THEN UNCHANGED <<db, conn>>
         ELSE Write(c, <<[t |-> "delCart", row |-> [id |-> line.cartId]]>>)
      /\ UNCHANGED nextId
      /\ Step(r, [pc |-> LinePc(q.cartItems, q.i + 1), i |-> q.i + 1,
                  deleted |-> IF m = {} THEN q.deleted ELSE q.deleted \cup {line.cartId}])

\* await pool.query('COMMIT'); res.json({ message, orderId })
PlaceCommit(r, c) ==
  /\ req[r].pc = "commit"
  /\ Commit(c)
  /\ UNCHANGED nextId
  /\ Step(r, [pc |-> "done", status |-> 200])

\* catch: await pool.query('ROLLBACK'); res.status(500).json({ error, details })
PlaceRollback(r, c) ==
  /\ req[r].pc = "rollback"
  /\ Rollback(c)
  /\ UNCHANGED nextId
  /\ Step(r, [pc |-> "done", status |-> 500, details |-> req[r].error,
              rolledBack |-> TRUE])

---------------------------------------------------------------------------
\* Admin operations on orders and carts (src/index.js, src/routes/cart.js)

\* A status check that accepts every value.
ValidStatusAny(status) == TRUE

\* ['pending', 'approved', 'completed', 'cancelled'].includes(status)
ValidStatus(status) == status \in {"pending", "approved", "completed", "cancelled"}

\* PUT /orders/:id.  The UPDATE runs on connection c1, the SELECT of the
\* updated row on c2.
OrderStatusUpdate(h, fresh, id, status, c1, c2) ==
  LET a == authenticate(h, fresh)
      Reply(code) ==
        RespondTo("orderStatus", code, h, id, NULL, status, {}) /\ StoreUnchanged
  IN  /\ UNCHANGED req
      /\ IF a.status # 0 THEN Reply(a.status)
         ELSE IF ~restrictTo("admin", a.user) THEN Reply(401)
         ELSE IF ~ValidStatus(status) THEN Reply(400)
         ELSE IF StatusMatched(View(c1), id) = {} THEN Reply(404)
         ELSE /\ Write(c1, <<[t |-> "updOrder",
                             row |-> [id |-> id, status |-> status]]>>)
              /\ UNCHANGED nextId
              /\ RespondTo("orderStatus", 200, h, id, NULL, status,
                           {o \in ApplyAll(conn'[c2].w, db').orders : o.id = id})

\* The rows of a read that only an admin may perform.
AdminRead(handler, h, fresh, id, rows) ==
  LET a == authenticate(h, fresh)
  IN  /\ UNCHANGED req
      /\ StoreUnchanged
      /\ IF a.status # 0 THEN Respond(handler, a.status, h, id, NULL, {})
         ELSE IF ~restrictTo("admin", a.user) THEN Respond(handler, 401, h, id, NULL, {})
         ELSE Respond(handler, 200, h, id, NULL, rows)

\* An order item as the order queries return it: the product name and
\* image come from the joined products row (LEFT JOIN products p ON
\* oi.product_id = p.id), everything else from the order_items row.
joinedItem(v, oi) ==
  [product_id |-> oi.product_id,
   product_name |-> v.products[oi.product_id].name,
   start_date |-> oi.start_date, end_date |-> oi.end_date,
   quantity |-> oi.quantity, price_per_day |-> oi.price_per_day,
   total_price |-> oi.total_price,
   image_url |-> v.products[oi.product_id].image_url]

\* formattedOrders: each order row with the items that survive
\* .filter(item => item !== null && item.product_id && item.product_name).
formattedOrders(v, orders) ==
  {[order |-> o,
    items |-> {x \in {joinedItem(v, oi) :
                        oi \in {y \in v.order_items : y.order_id = o.id}} :
                 x.product_id # NULL /\ x.product_name # NULL}] : o \in orders}

\* GET /orders/my-orders.  req.user.id throws for a guest, whose req.user
\* is null; the catch block answers 500.
OrdersMine(h, fresh, c) ==
  LET a == authenticate(h, fresh)
      v == View(c)
  IN  /\ UNCHANGED req
      /\ StoreUnchanged
      /\ IF a.status # 0 THEN Respond("ordersMine", a.status, h, NULL, NULL, {})
         ELSE IF a.user.id = NULL THEN Respond("ordersMine", 500, h, NULL, NULL, {})
         ELSE Respond("ordersMine", 200, h, NULL, NULL,
                      formattedOrders(v, {o \in v.orders : o.user_id = a.user.id}))

\* GET /orders (admin only)
OrdersAll(h, fresh, c) ==
  AdminRead("ordersAll", h, fresh, NULL, formattedOrders(View(c), View(c).orders))

\* GET /orders/user/:userId (admin only)
OrdersByUser(h, fresh, userId, c) ==
  AdminRead("ordersByUser", h, fresh, userId,
            formattedOrders(View(c), {o \in View(c).orders : o.user_id = userId}))

\* GET /cart/all (admin only): cart rows joined with their product rows.
CartAll(h, fresh, c) ==
  AdminRead("cartAll", h, fresh, NULL,
            {x \in View(c).cart :
               \E p \in ProductRows(View(c)) : p.id = x.product_id})

---------------------------------------------------------------------------
\* Users (src/routes/authRoutes.js)

\* const [existing] = await query(...); existing && existing.length > 0.
\* query returns the rows, so existing is the first row, an object without
\* a length: the test is false whatever the SELECT found.
emailInUse(rows) == FALSE

\* A users table without the unique index on email.
DuplicateEntryNever(email, id) == FALSE

\* The unique index on users.email: an INSERT or UPDATE that gives row id
\* an email another row holds, committed or written by an open
\* transaction, fails.
DuplicateEntry(email, id) ==
  \E u \in db.users \cup UNION {View(c).users : c \in Conns} :
    u.email = email /\ u.id # id

\* POST /auth/register.  The SELECT runs on c1, the INSERT on c2.
Register(username, email, password, address, phone, c1, c2) ==
  LET existing == {u \in View(c1).users : u.email = email}
      row == [id |-> nextId.users, username |-> username, email |-> email,
              address |-> address, phone |-> phone, role |-> "client"]
      Reply(status) ==
        RespondTo("register", status, NoHeader, NULL, NULL, email, {})
          /\ StoreUnchanged
  IN  /\ UNCHANGED req
      /\ IF username = "" \/ email = "" \/ password = "" \/ address = ""
            \/ phone = "" THEN Reply(400)
         ELSE IF emailInUse(existing) THEN Reply(400)
         ELSE IF password = "short" THEN Reply(400)
         ELSE IF DuplicateEntry(email, NULL) THEN Reply(400)
         ELSE /\ nextId.users <= MaxUsers
              /\ Write(c2, <<[t |-> "insUser", row |-> row]>>)
              /\ nextId' = [nextId EXCEPT !.users = @ + 1]
              /\ RespondTo("register", 201, NoHeader, row.id, NULL, email, {})

\* PUT /users/profile.  req.user.id throws for a guest; the SELECT runs on
\* c1, the UPDATE on c2; a failing statement is answered 500.
ProfileUpdate(h, fresh, username, email, address, phone, c1, c2) ==
  LET a == authenticate(h, fresh)
      existing == {u \in View(c1).users : u.email = email /\ u.id # a.user.id}
      Reply(status) ==
        RespondTo("profileUpdate", status, h, a.user.id, NULL, email, {})
          /\ StoreUnchanged
  IN  /\ UNCHANGED req
      /\ IF a.status # 0 THEN Reply(a.status)
         ELSE IF a.user.id = NULL THEN Reply(500)
         ELSE IF emailInUse(existing) THEN Reply(400)
         ELSE IF DuplicateEntry(email, a.user.id) THEN Reply(500)
         ELSE /\ Write(c2, <<[t |-> "updUser",
                             row |-> [id |-> a.user.id,
                                      set |-> [username |-> username, email |-> email,
                                               address |-> address, phone |-> phone]]]>>)
              /\ UNCHANGED nextId
              /\ RespondTo("profileUpdate", 200, h, a.user.id, NULL, email, {})

\* PUT /users/:id/email (admin only)
AdminEmailUpdate(h, fresh, id, email, c1, c2) ==
  LET a == authenticate(h, fresh)
      existing == {u \in View(c1).users : u.email = email /\ u.id # id}
      Reply(status) ==
        RespondTo("adminEmail", status, h, id, NULL, email, {}) /\ StoreUnchanged
  IN  /\ UNCHANGED req
      /\ IF a.status # 0 THEN Reply(a.status)
         ELSE IF ~restrictTo("admin", a.user) THEN Reply(401)
         ELSE IF ~ValidEmail(email) THEN Reply(400)
         ELSE IF emailInUse(existing) THEN Reply(400)
         ELSE IF DuplicateEntry(email, id) THEN Reply(500)
         ELSE /\ Write(c2, <<[t |-> "updUser",
                             row |-> [id |-> id, set |-> [email |-> email]]]>>)
              /\ UNCHANGED nextId
              /\ RespondTo("adminEmail", 200, h, id, NULL, email, {})

---------------------------------------------------------------------------
\* Initial state: the deployed catalogue, empty cart and order tables, every
\* pooled connection idle.

Init ==
  /\ db = [products |-> InitProducts, cart |-> {}, orders |-> {}, order_items |-> {},
           users |-> {Users[u] : u \in DOMAIN Users}]
  /\ conn = [c \in Conns |-> [intx |-> FALSE, w |-> <<>>, by |-> NULL]]
  /\ nextId = [cart |-> 1, orders |-> 1, order_items |-> 1,
               products |-> Cardinality(ProductIds) + 1,
               users |-> Cardinality(DOMAIN Users) + 1]
  /\ req = [r \in Slots |-> IdleRequest]
  /\ last = Idle
  /\ NODE_ENV = "production"

\* crypto.randomUUID()
FreshGuests == {13}

\* A line of cartItems that references cart item k of product p.
CartLine(k, p) ==
  [cartId |-> k, productId |-> p, start_date |-> NULL, end_date |-> NULL,
   quantity |-> NULL]

\* An ad-hoc line.
AdHocLine(p, start, end, qty) ==
  [cartId |-> NULL, productId |-> p, start_date |-> start, end_date |-> end,
   quantity |-> qty]

GoodContact == [name |-> "guest", email |-> "g@x.y", address |-> "addr", phone |-> "555"]

\* The steps of a placement after its first; E: whether the order_items
\* INSERT may fail in the store.
PlaceSteps(r, E) ==
  \/ \E c \in Conns : PlaceStart(r, c)
  \/ \E c \in Conns : PlaceInsertOrder(r, c)
  \/ \E c \in Conns : PlaceFetchCart(r, c)
  \/ \E c \in Conns : PlaceFetchProduct(r, c)
  \/ \E c \in Conns, storeError \in E : PlaceInsertItem(r, c, storeError)
  \/ \E c \in Conns : PlaceDeleteCart(r, c)
  \/ \E c \in Conns : PlaceCommit(r, c)
  \/ \E c \in Conns : PlaceRollback(r, c)

\* Requests drawn from input sets: callers H, products P, end dates E,
\* quantities Q, slots R, request bodies B.
AddToCart(H, P, S, E, Q) ==
  \E h \in H, p \in P, s \in S, e \in E, q \in Q, c1 \in Conns, c2 \in Conns :
    CartAdd(h, 13, p, s, e, q, c1, c2)

Place(R, B) ==
  \E r \in R, b \in B : PlaceOrder(r, b.h, 13, b.body)

\* Bodies of one line from L, or of a line from K followed by one from L.
Bodies(K, L, guestSessionId, contact) ==
  {[cartItems |-> s, guestSessionId |-> guestSessionId, contact |-> contact] :
     s \in {<<l>> : l \in L} \cup {<<l1, l2>> : l1 \in K, l2 \in L}}

Requests(h, K, L, guestSessionId, contact) ==
  {[h |-> h, body |-> b] : b \in Bodies(K, L, guestSessionId, contact)}

---------------------------------------------------------------------------
\* Spec: a registered user and a guest fill their carts while one Place
\* Order request runs on the pool.

SpecRequests ==
  LET K == {CartLine(1, 1)}
      L == {CartLine(k, 1) : k \in 1..MaxCartRows}
             \cup {CartLine(1, NULL), AdHocLine(1, Today + 1, Today, 1)}
  IN  Requests(Client(1), K, L, NULL, NoContact)
        \cup Requests(Guest(11), K, L, 11, GoodContact)
        \cup Requests(Client(1), {}, {CartLine(1, 1)}, 11, NoContact)

Next ==
  \/ AddToCart({Client(1), [Client(1) EXCEPT !.guest = 11], Guest(11)},
               {1}, {Today}, {Today + 3}, {1})
  \/ Place({1}, SpecRequests)
  \/ PlaceSteps(1, BOOLEAN)

Spec == Init /\ [][Next]_vars

---------------------------------------------------------------------------
\* Claims checked under Spec

\* C1: once a Place Order request that failed after START TRANSACTION has
\* responded, the store holds no Order row and no OrderItem row created by
\* it, and every cart item it deleted while processing earlier lines is
\* still in the cart.
C1_FailedPlacementLeavesNothing ==
  \A r \in Slots :
    (req[r].pc = "done" /\ req[r].began /\ req[r].status # 200) =>
      /\ \A o \in db.orders : o.id # req[r].orderId
      /\ \A i \in db.order_items : i.order_id # req[r].orderId
      /\ req[r].deleted \subseteq {x.id : x \in db.cart}

\* C2: a Place Order request whose N >= 1 lines each reference a different
\* cart item of the caller (and carry its product) responds 200 unless the
\* store fails, and then the store holds exactly one Order with its id, in
\* status pending, exactly N OrderItems of that Order, and none of the N
\* cart items; it deleted those N cart items and no other.
C2_ValidPlacementCreatesOrder ==
  \A r \in Slots :
    (req[r].pc = "done" /\ req[r].valid /\ req[r].error # "store error") =>
      /\ req[r].status = 200
      /\ Cardinality({o \in db.orders :
                        o.id = req[r].orderId /\ o.status = "pending"}) = 1
      /\ Cardinality({i \in db.order_items : i.order_id = req[r].orderId})
           = Len(req[r].cartItems)
      /\ req[r].deleted
           = {req[r].cartItems[j].cartId : j \in 1..Len(req[r].cartItems)}
      /\ \A x \in db.cart : x.id \notin req[r].deleted

\* C3: every Order row a read on an idle connection returns (a committed
\* row) belongs to a placement that has committed and responded, and has as
\* many OrderItems as that request has lines.
C3_NoPartialOrderVisible ==
  \A o \in db.orders :
    \E r \in Slots :
      /\ req[r].orderId = o.id
      /\ req[r].pc = "done"
      /\ req[r].status = 200
      /\ Cardinality({i \in db.order_items : i.order_id = o.id})
           = Len(req[r].cartItems)

\* C5: a Place Order request that has responded after START TRANSACTION has
\* left no connection inside the transaction it began; if it failed, it
\* issued ROLLBACK first and responded 500 with the message of the error
\* that was thrown.
C5_RollbackBeforeErrorResponse ==
  \A r \in Slots :
    (req[r].pc = "done" /\ req[r].began) =>
      /\ \A c \in Conns : ~(conn[c].intx /\ conn[c].by = r)
      /\ req[r].status # 200 =>
           /\ req[r].rolledBack
           /\ req[r].status = 500
           /\ req[r].error # ""
           /\ req[r].details = req[r].error

\* Exactly one owner kind: user id XOR guest session id.
OneOwner(x) == (x.user_id # NULL) # (x.guest_session_id # NULL)

\* C7: every cart row and every Order row, committed or buffered in a
\* transaction, has exactly one owner kind set.
C7_ExactlyOneOwnerKind ==
  /\ \A x \in db.cart \cup db.orders : OneOwner(x)
  /\ \A c \in Conns : \A x \in View(c).cart \cup View(c).orders : OneOwner(x)

\* C7 witness: a guest's Order is committed while a registered user's cart
\* row and a guest's cart row exist.
C7_Witness ==
  /\ \E o \in db.orders : o.guest_session_id # NULL
  /\ \E x \in db.cart : x.user_id # NULL
  /\ \E x \in db.cart : x.guest_session_id # NULL

---------------------------------------------------------------------------
\* SpecRace: a registered user fills the cart and then sends two Place
\* Order requests for the first cart item, which run concurrently.

RaceRequests ==
  Requests(Client(1), {}, {CartLine(1, 1)}, NULL, NoContact)

NextRace ==
  \/ (\A r \in Slots : req[r].pc = "idle")
       /\ AddToCart({Client(1)}, {1}, {Today}, {Today + 3}, {1})
  \/ Place(Slots, RaceRequests)
  \/ \E r \in Slots : PlaceSteps(r, {FALSE})

SpecRace == Init /\ [][NextRace]_vars

\* C4: no cart item is turned into an OrderItem by two Place Order requests
\* that both respond with success.
C4_OneConsumerPerCartItem ==
  \A r1, r2 \in Slots :
    (r1 # r2 /\ req[r1].pc = "done" /\ req[r2].pc = "done"
       /\ req[r1].status = 200 /\ req[r2].status = 200)
      => req[r1].ordered \cap req[r2].ordered = {}

---------------------------------------------------------------------------
\* SpecCart: a registered user and a guest fill their carts; they, another
\* user and another guest session update and remove cart items by id.

CartCallers == {Client(1), Client(2), Guest(11), Guest(12)}

ChangeCart(H, Q) ==
  \/ \E h \in H, k \in 1..MaxCartRows, q \in Q, c \in Conns :
       CartUpdate(h, 13, k, q, c)
  \/ \E h \in H, k \in 1..MaxCartRows, c \in Conns : CartRemove(h, 13, k, c)

NextCart ==
  \/ AddToCart({Client(1), Guest(11)}, {1}, {Today}, {Today + 1}, {1})
  \/ ChangeCart(CartCallers, {0, 2})

SpecCart == Init /\ [][NextCart]_vars

\* Whether the caller with credentials h owns a committed cart row with
\* this id.
OwnsCartItem(h, id) ==
  \E x \in db.cart :
    /\ x.id = id
    /\ IF h.authorization = "bearer"
       THEN x.user_id = h.token.id
       ELSE x.guest_session_id = h.guest

\* C6 as stated: an update-quantity or remove request for a cart item the
\* caller does not own answers 404 and changes no table.
C6_ForeignMutationIsNotFound ==
  [][(last'.handler \in {"cartUpdate", "cartRemove"}
        /\ ~OwnsCartItem(last'.h, last'.id))
       => (last'.status = 404 /\ db' = db)]_vars

\* C6 as amended: such a request changes no table and answers 404, except
\* that an update whose quantity is not a positive integer answers 400.
C6_ForeignMutationChangesNothing ==
  [][(last'.handler \in {"cartUpdate", "cartRemove"}
        /\ ~OwnsCartItem(last'.h, last'.id))
       => /\ db' = db
          /\ last'.status =
               IF last'.handler = "cartUpdate" /\ last'.quantity < 1
               THEN 400 ELSE 404]_vars

\* C6 witness: a registered user's update of an existing cart item of a
\* guest session was answered 404.
C6_Witness ==
  /\ last.handler = "cartUpdate"
  /\ last.status = 404
  /\ last.h.authorization = "bearer"
  /\ \E x \in db.cart : x.id = last.id /\ x.guest_session_id # NULL

---------------------------------------------------------------------------
\* SpecSnapshot: a registered user adds products to the cart, changes
\* quantities and lists the cart while the admin edits product prices.

EditPrices(P, R, S) ==
  \E id \in P, regular_price \in R, sale_price \in S, c1 \in Conns, c2 \in Conns :
    ProductUpdate(Admin, 13, id, regular_price, sale_price, TRUE, c1, c2)

ListCart(H) == \E h \in H, c \in Conns : CartList(h, 13, c)

NextSnapshot ==
  \/ AddToCart({Client(1)}, ProductIds, {Today}, {Today + 1}, {1})
  \/ \E k \in 1..MaxCartRows, c \in Conns : CartUpdate(Client(1), 13, k, 2, c)
  \/ EditPrices(ProductIds, {Undefined, 30}, {Undefined, 0})
  \/ ListCart({Client(1)})

SpecSnapshot == Init /\ [][NextSnapshot]_vars

\* C10: Cart Add stores the product's sale price if it has one, else its
\* regular price, as read when the item is added; no step changes the
\* price_snapshot of a cart row; Cart List returns each row's stored
\* price_snapshot as its price_per_day.
C10_SnapshotIsFrozen ==
  [][/\ (last'.handler = "cartAdd" /\ last'.status = 200) =>
          \A x \in last'.rows :
            /\ x \in db'.cart
            /\ x.price_snapshot =
                 IF db.products[x.product_id].sale_price # NULL
                 THEN db.products[x.product_id].sale_price
                 ELSE db.products[x.product_id].price_per_day
     /\ \A x \in db.cart : \A y \in db'.cart :
          x.id = y.id => y.price_snapshot = x.price_snapshot
     /\ (last'.handler = "cartList" /\ last'.status = 200) =>
          /\ {x.id : x \in last'.rows} = {y.id : y \in db.cart}
          /\ \A x \in last'.rows : \A y \in db.cart :
               x.id = y.id => x.price_per_day = y.price_snapshot]_vars

\* C10 witness: Cart List returned an item whose quantity was updated, at a
\* price that is no longer the product's regular or sale price.
C10_Witness ==
  /\ last.handler = "cartList"
  /\ \E x \in last.rows :
       /\ x.quantity = 2
       /\ x.price_per_day # db.products[x.product_id].price_per_day
       /\ x.price_per_day # db.products[x.product_id].sale_price

---------------------------------------------------------------------------
\* SpecPrice: a registered user adds rentals of several lengths and
\* quantities to the cart and places one order for the first cart item;
\* before the order is placed the admin raises the regular price of
\* product 1.

PriceRequests ==
  Requests(Client(1), {},
           {CartLine(1, p) : p \in ProductIds}
             \cup {AdHocLine(1, Today + 1, Today, 1)},
           NULL, NoContact)

NextPrice ==
  \/ AddToCart({Client(1)}, {1}, {Today}, {Today + 1, Today + 4}, {1})
  \/ AddToCart({Client(1)}, {2}, {Today}, {Today + 3}, {2})
  \/ req[1].pc = "idle" /\ EditPrices({1}, {30}, {Undefined})
  \/ Place({1}, PriceRequests)
  \/ PlaceSteps(1, {FALSE})

SpecPrice == Init /\ [][NextPrice]_vars

\* The order_items rows that are committed or buffered in a transaction.
OrderItemRows == db.order_items \cup UNION {View(c).order_items : c \in Conns}

\* C8: every OrderItem has its start strictly before its end, and its
\* total_price is d * price_per_day * quantity for the least whole number
\* of days d that covers the rental; d is at least 1.
C8_TotalIsCeilDaysTimesPriceTimesQuantity ==
  \A x \in OrderItemRows :
    /\ x.start_date < x.end_date
    /\ \E d \in 1..(x.end_date - x.start_date) :
         /\ d * UnitsPerDay >= x.end_date - x.start_date
         /\ (d - 1) * UnitsPerDay < x.end_date - x.start_date
         /\ x.total_price = d * x.price_per_day * x.quantity

\* C8 witness: a committed OrderItem of quantity 2 whose rental is longer
\* than one day and not a whole number of days.
C8_Witness ==
  \E x \in db.order_items :
    /\ x.quantity = 2
    /\ x.end_date - x.start_date > UnitsPerDay
    /\ (x.end_date - x.start_date) % UnitsPerDay # 0

\* C9: when the OrderItem of a cart-referenced line has been inserted, its
\* price_per_day is the cart item's price_snapshot and its total_price is
\* computed from that snapshot.
C9_CartLineChargesSnapshot ==
  \A r \in Slots :
    req[r].pc = "delete" =>
      \A x \in OrderItemRows :
        x.id = nextId.order_items - 1 =>
          /\ x.price_per_day = req[r].cartItem.price_snapshot
          /\ x.total_price =
               totalPrice(x.start_date, x.end_date,
                          req[r].cartItem.price_snapshot, x.quantity)

---------------------------------------------------------------------------
\* SpecValidate: a registered user and a guest fill their carts, and one
\* Place Order request arrives whose caller, line list, guest session id
\* and contact fields are each either good or bad.

ValidateContacts ==
  {GoodContact, NoContact, [GoodContact EXCEPT !.email = ""],
   [GoodContact EXCEPT !.email = "bad"], [GoodContact EXCEPT !.phone = ""]}

ValidateRequests ==
  {[h |-> h, body |-> [cartItems |-> s, guestSessionId |-> g, contact |-> k]] :
     h \in {Client(1), Client(3), Guest(11), Guest(NULL)},
     s \in {<<>>, <<CartLine(1, 1)>>}, g \in {NULL, 11}, k \in ValidateContacts}

NextValidate ==
  \/ AddToCart({Client(1), Guest(11)}, {1}, {Today}, {Today + 1}, {1})
  \/ Place({1}, ValidateRequests)
  \/ PlaceSteps(1, {FALSE})

SpecValidate == Init /\ [][NextValidate]_vars

\* The inputs validation rejects: no line, no identity, a guest without
\* name, email, address or phone or with a malformed email, a registered
\* user whose record has no email.
RejectedByValidation(q) ==
  \/ q.cartItems = <<>>
  \/ q.h.authorization = "none" /\ q.guestSessionId = NULL
  \/ /\ q.h.authorization = "none"
     /\ \/ q.contact.name = "" \/ q.contact.email = ""
        \/ q.contact.address = "" \/ q.contact.phone = ""
        \/ q.contact.email = "bad"
  \/ /\ q.h.authorization = "bearer"
     /\ q.h.token.id \in DOMAIN Users
     /\ Users[q.h.token.id].email = ""

\* C11: a Place Order request that validation rejects is answered 400 in
\* its first step, without START TRANSACTION, and that step changes no
\* table and no connection.
C11_RejectedBeforeTransaction ==
  [][\A r \in Slots :
       (req[r].pc = "idle" /\ req'[r].pc # "idle"
          /\ RejectedByValidation(req'[r]))
         => /\ req'[r].pc = "done"
            /\ req'[r].status = 400
            /\ ~req'[r].began
            /\ db' = db
            /\ conn' = conn]_vars

\* C11 witness: a guest request with a line, a guest session id and a
\* malformed email was answered 400 while the cart table held rows.
C11_Witness ==
  /\ req[1].pc = "done"
  /\ req[1].status = 400
  /\ req[1].cartItems # <<>>
  /\ req[1].guestSessionId # NULL
  /\ req[1].contact.email = "bad"
  /\ db.cart # {}

---------------------------------------------------------------------------
\* SpecForeign: a registered user fills the cart; then the user (slot 1)
\* and a guest (slot 2) each send a Place Order request for the first cart
\* item, and the two requests run concurrently.

ForeignRequests ==
  Requests(Guest(11), {}, {CartLine(1, 1)}, 11, GoodContact)

NextForeign ==
  \/ (\A r \in Slots : req[r].pc = "idle")
       /\ AddToCart({Client(1)}, {1}, {Today}, {Today + 3}, {1})
  \/ Place({1}, RaceRequests)
  \/ Place({2}, ForeignRequests)
  \/ \E r \in Slots : PlaceSteps(r, {FALSE})

SpecForeign == Init /\ [][NextForeign]_vars

\* Whether cart row x belongs to the caller of placement q: to the user of
\* its token, or else to the guest session its body names.
CallerOwns(q, x) ==
  IF q.h.authorization = "bearer"
  THEN x.user_id = q.h.token.id
  ELSE x.guest_session_id = q.guestSessionId

---------------------------------------------------------------------------
\* SpecSoftDelete: the admin soft-deletes and restores products and
\* switches the availability of product 1 while a registered user adds
\* products to the cart.

TrashProducts(H, P) ==
  \E h \in H, id \in P, c \in Conns : ProductDelete(h, 13, id, c)

RestoreProducts(H, P) ==
  \E h \in H, id \in P, c \in Conns : ProductRestore(h, 13, id, c)

SetAvailable(P, A) ==
  \E id \in P, available \in A, c1 \in Conns, c2 \in Conns :
    ProductUpdate(Admin, 13, id, Undefined, Undefined, available, c1, c2)

NextSoftDelete ==
  \/ AddToCart({Client(1)}, ProductIds, {Today}, {Today + 1}, {1})
  \/ TrashProducts({Admin}, ProductIds)
  \/ RestoreProducts({Admin}, ProductIds)
  \/ SetAvailable({1}, BOOLEAN)

SpecSoftDelete == Init /\ [][NextSoftDelete]_vars

\* C13: no step inserts a cart row for a product that is soft-deleted, and
\* Cart Add never answers 200 for such a product.
C13_NoCartAddOfSoftDeleted ==
  [][/\ \A x \in db'.cart \ db.cart : ~db.products[x.product_id].is_deleted
     /\ (last'.handler = "cartAdd" /\ last'.status = 200) =>
          \A x \in last'.rows : ~db.products[x.product_id].is_deleted]_vars

---------------------------------------------------------------------------
\* SpecCatalog: the admin creates, updates, soft-deletes and restores
\* products while the public and the admin read the listings.

CreateProducts(H, R, A) ==
  \E h \in H, regular_price \in R, available \in A, c \in Conns :
    ProductCreate(h, 13, nextId.products, regular_price, NULL, available, c)

UpdateProducts(H, P, R, A) ==
  \E h \in H, id \in P, regular_price \in R, available \in A,
     c1 \in Conns, c2 \in Conns :
    ProductUpdate(h, 13, id, regular_price, Undefined, available, c1, c2)

BrowseProducts(P) ==
  \/ \E c \in Conns : ProductList(c)
  \/ \E id \in P, c \in Conns : ProductGet(id, c)

ListDeleted(H) == \E h \in H, c \in Conns : ProductDeleted(h, 13, c)

NextCatalog ==
  \/ CreateProducts({Admin}, {0, 20}, BOOLEAN)
  \/ UpdateProducts({Admin}, {1, MaxProducts}, {Undefined, 30}, BOOLEAN)
  \/ TrashProducts({Admin}, ProductSlots)
  \/ RestoreProducts({Admin}, ProductSlots)
  \/ BrowseProducts(ProductSlots)
  \/ ListDeleted({Admin})

SpecCatalog == Init /\ [][NextCatalog]_vars

\* The committed rows of the products table.
StoredProducts == {db.products[i] : i \in ProductSlots} \ {NoProductRow}

\* C14: the public listing returns no soft-deleted product, the public
\* fetch of a soft-deleted product answers 404 and returns nothing, and the
\* admin deleted listing returns exactly the soft-deleted products.
C14_SoftDeletedHiddenFromPublic ==
  [][/\ last'.handler = "productList" =>
          /\ last'.rows \subseteq StoredProducts
          /\ \A p \in last'.rows : ~p.is_deleted
     /\ last'.handler = "productGet" =>
          IF \E p \in StoredProducts : p.id = last'.id /\ ~p.is_deleted
          THEN last'.rows = {db.products[last'.id]}
          ELSE last'.status = 404 /\ last'.rows = {}
     /\ (last'.handler = "productDeleted" /\ last'.status = 200) =>
          last'.rows = {p \in StoredProducts : p.is_deleted}]_vars

\* C14 witness: the deleted listing returned a created product that is
\* available, and not another product.
C14_Witness ==
  /\ last.handler = "productDeleted"
  /\ \E p \in last.rows : p.id \notin ProductIds /\ p.available
  /\ \E p \in StoredProducts : p \notin last.rows

\* C15: a restore of a soft-deleted product answers 200 and changes only
\* its flag, any other restore answers 404 and changes nothing; a soft
\* delete of a product that is not soft-deleted answers 200 and changes
\* only its flag, any other soft delete answers 404 and changes nothing;
\* while a product is soft-deleted no step changes another field of it;
\* no step removes a product row.
C15_RestoreReversesSoftDeleteOnce ==
  [][/\ last'.handler = "productRestore" =>
          IF \E p \in StoredProducts : p.id = last'.id /\ p.is_deleted
          THEN /\ last'.status = 200
               /\ db' = [db EXCEPT !.products[last'.id].is_deleted = FALSE]
          ELSE last'.status = 404 /\ db' = db
     /\ last'.handler = "productDelete" =>
          IF \E p \in StoredProducts : p.id = last'.id /\ ~p.is_deleted
          THEN /\ last'.status = 200
               /\ db' = [db EXCEPT !.products[last'.id].is_deleted = TRUE]
          ELSE last'.status = 404 /\ db' = db
     /\ \A i \in ProductSlots :
          /\ db.products[i] # NoProductRow => db'.products[i] # NoProductRow
          /\ db.products[i].is_deleted =>
               db'.products[i] \in
                 {db.products[i], [db.products[i] EXCEPT !.is_deleted = FALSE]}]_vars

\* C15 witness: a restore of a product that exists, had its price edited
\* and is not soft-deleted was answered 404.
C15_Witness ==
  /\ last.handler = "productRestore"
  /\ last.status = 404
  /\ \E p \in StoredProducts :
       p.id = last.id /\ ~p.is_deleted /\ p.price_per_day = 30

---------------------------------------------------------------------------
\* SpecStatus: a registered user places an order while an admin updates
\* order statuses.

UpdateStatus(H, I, S) ==
  \E h \in H, id \in I, status \in S, c1 \in Conns, c2 \in Conns :
    OrderStatusUpdate(h, 13, id, status, c1, c2)

\* Every connection's transaction holds fewer than MaxLog buffered writes.
LogRoom == \A c \in Conns : Len(conn[c].w) < MaxLog

NextStatus ==
  \/ req[1].pc = "idle" /\ AddToCart({Client(1)}, {1}, {Today}, {Today + 3}, {1})
  \/ Place({1}, RaceRequests)
  \/ PlaceSteps(1, {FALSE})
  \/ LogRoom /\ UpdateStatus({Admin}, {1, 2}, {"approved", "cancelled", "shipped"})

SpecStatus == Init /\ [][NextStatus]_vars

\* The order rows that are committed or visible on some connection.
AllOrders == db.orders \cup UNION {View(c).orders : c \in Conns}

\* C16: every order row has one of the four statuses, and a row with a new
\* id has status pending; a status update by the admin with another status
\* value answers 400 and changes nothing; a status update by the admin of
\* an order id that no connection can see answers 404 and changes nothing.
C16_StatusIsOneOfFour ==
  [][/\ \A o \in AllOrders' :
          /\ o.status \in {"pending", "approved", "completed", "cancelled"}
          /\ (\A o2 \in AllOrders : o2.id # o.id) => o.status = "pending"
     /\ (last'.handler = "orderStatus" /\ last'.h = Admin) =>
          IF last'.value \notin {"pending", "approved", "completed", "cancelled"}
          THEN last'.status = 400 /\ db' = db /\ conn' = conn
          ELSE (\A o \in AllOrders : o.id # last'.id) =>
                 last'.status = 404 /\ db' = db /\ conn' = conn]_vars

\* C16 witness: a status update to "shipped" of a committed order that was
\* cancelled before was answered 400.
C16_Witness ==
  /\ last.handler = "orderStatus"
  /\ last.status = 400
  /\ last.value = "shipped"
  /\ \E o \in db.orders : o.id = last.id /\ o.status = "cancelled"

---------------------------------------------------------------------------
\* SpecFrozen: a registered user places two orders one after the other;
\* after both are answered an admin updates order statuses and prices and
\* the user changes the cart.

FrozenRequests ==
  Requests(Client(1), {}, {CartLine(2, 1)}, NULL, NoContact)

\* Both requests have been answered.
Settled == \A r \in Slots : req[r].pc = "done"

NextFrozen ==
  \/ (\A r \in Slots : req[r].pc = "idle")
       /\ AddToCart({Client(1)}, {1}, {Today}, {Today + 3}, {1})
  \/ Place({1}, RaceRequests)
  \/ req[1].pc = "done" /\ Place({2}, FrozenRequests)
  \/ \E r \in Slots : PlaceSteps(r, {FALSE})
  \/ (LogRoom /\ Settled) /\ UpdateStatus({Admin}, {1, 2}, {"cancelled"})
  \/ (LogRoom /\ Settled) /\ EditPrices({1}, {30}, {Undefined})
  \/ (Settled /\ \A c \in Conns : ~conn[c].intx) /\ ChangeCart({Client(1)}, {2})

SpecFrozen == Init /\ [][NextFrozen]_vars

\* C17: no step removes a committed order or changes a field of it other
\* than its status, and no step removes or changes a committed order item;
\* a status update leaves the order items, the cart rows and every order
\* but the addressed one unchanged, committed and as seen on each
\* connection; product updates and cart operations leave the orders and
\* the order items unchanged.
C17_CommittedOrderIsFrozen ==
  [][/\ \A o \in db.orders :
          \E o2 \in db'.orders : o2 = [o EXCEPT !.status = o2.status]
     /\ db.order_items \subseteq db'.order_items
     /\ last'.handler = "orderStatus" =>
          /\ db'.order_items = db.order_items
          /\ db'.cart = db.cart
          /\ db'.products = db.products
          /\ \A o \in db.orders : o.id # last'.id => o \in db'.orders
          /\ \A c \in Conns :
               /\ View(c)'.order_items = View(c).order_items
               /\ View(c)'.cart = View(c).cart
               /\ \A o \in View(c).orders :
                    o.id # last'.id => o \in View(c)'.orders
     /\ last'.handler \in {"productUpdate", "cartAdd", "cartUpdate", "cartRemove"} =>
          /\ db'.orders = db.orders
          /\ db'.order_items = db.order_items]_vars

\* C17 witness: a status update of one of two committed orders, both with
\* committed order items, was answered 200 and the other order has another
\* status.
C17_Witness ==
  /\ last.handler = "orderStatus"
  /\ last.status = 200
  /\ \E o1 \in db.orders, o2 \in db.orders :
       /\ o1.id = last.id
       /\ o2.id # last.id
       /\ o1.status = last.value
       /\ o2.status # o1.status
       /\ \E x \in db.order_items : x.order_id = o1.id
       /\ \E x \in db.order_items : x.order_id = o2.id

---------------------------------------------------------------------------
\* SpecAdmin: a registered user places an order; after it is answered the
\* admin, the user and a guest call the admin operations.

Outsiders == {Client(1), Guest(11)}

ReadOrders(H, U) ==
  \/ \E h \in H, c \in Conns : OrdersAll(h, 13, c)
  \/ \E h \in H, userId \in U, c \in Conns : OrdersByUser(h, 13, userId, c)

ListCarts(H) == \E h \in H, c \in Conns : CartAll(h, 13, c)

\* The request has been answered.
Answered == req[1].pc = "done"

NextAdmin ==
  \/ req[1].pc = "idle" /\ AddToCart({Client(1)}, {1}, {Today}, {Today + 3}, {1})
  \/ Place({1}, RaceRequests)
  \/ PlaceSteps(1, {FALSE})
  \/ (LogRoom /\ Answered) /\ CreateProducts(Outsiders, {20}, {TRUE})
  \/ (LogRoom /\ Answered)
       /\ UpdateProducts(Outsiders \cup {Admin}, {1}, {30}, {TRUE})
  \/ (LogRoom /\ Answered) /\ TrashProducts(Outsiders \cup {Admin}, {1})
  \/ (LogRoom /\ Answered) /\ RestoreProducts(Outsiders \cup {Admin}, {1})
  \/ (LogRoom /\ Answered)
       /\ UpdateStatus(Outsiders \cup {Admin}, {1}, {"approved"})
  \/ Answered /\ ReadOrders(Outsiders \cup {Admin}, {1})
  \/ Answered /\ ListCarts(Outsiders \cup {Admin})

SpecAdmin == Init /\ [][NextAdmin]_vars

\* C18: a product create, update, soft delete or restore, an order status
\* update, a fetch of all orders or of a user's orders and a listing of all
\* carts is not answered 401 when the caller carries a verified token with
\* role admin; for any other caller it is answered 401, returns no rows and
\* changes no table, no transaction and no id counter.
C18_AdminOnly ==
  [][last'.handler \in {"productCreate", "productUpdate", "productDelete",
                        "productRestore", "orderStatus", "ordersAll",
                        "ordersByUser", "cartAll"} =>
       IF /\ last'.h.authorization = "bearer"
          /\ last'.h.token.valid = "ok"
          /\ last'.h.token.role = "admin"
       THEN last'.status # 401
       ELSE /\ last'.status = 401
            /\ last'.rows = {}
            /\ db' = db
            /\ conn' = conn
            /\ nextId' = nextId]_vars

\* C18 witness: a registered client's status update of their own committed
\* order was answered 401.
C18_Witness ==
  /\ last.handler = "orderStatus"
  /\ last.h = Client(1)
  /\ last.status = 401
  /\ \E o \in db.orders :
       o.id = last.id /\ o.user_id = 1 /\ o.status = "pending"

---------------------------------------------------------------------------
\* SpecGate: callers with every kind of credential add to the cart, list
\* it and change it.

\* A Bearer token that jwt.verify rejects, and an Authorization header of
\* another scheme.
ExpiredToken ==
  [authorization |-> "bearer",
   token |-> [valid |-> "expired", id |-> 1, role |-> "client"],
   guest |-> NULL, cookie |-> NULL]
BasicHeader ==
  [authorization |-> "other", token |-> NoToken, guest |-> 11, cookie |-> NULL]

GateCallers ==
  {Client(1), Guest(11), CookieGuest(11), Guest(NULL), ExpiredToken, BasicHeader}

NextGate ==
  \/ AddToCart(GateCallers, {1}, {Today}, {Today + 1}, {1})
  \/ ListCart(GateCallers)
  \/ ChangeCart(GateCallers, {2})

SpecGate == Init /\ [][NextGate]_vars

\* C19: a Cart Add that succeeds stores the identity the Auth Gate
\* resolved: for a verified Bearer token the token's user and no guest
\* session; without an Authorization header no user and the guest session
\* id supplied by body or query, else the one supplied by cookie, else a
\* newly issued one; a Cart Add with any other credential is answered 401
\* and changes nothing.
C19_OneIdentity ==
  [][last'.handler = "cartAdd" =>
       LET h == last'.h
       IN  IF h.authorization = "none"
           THEN \A x \in last'.rows :
                  /\ x.user_id = NULL
                  /\ IF h.guest # NULL THEN x.guest_session_id = h.guest
                     ELSE IF h.cookie # NULL THEN x.guest_session_id = h.cookie
                     ELSE x.guest_session_id \in FreshGuests
           ELSE IF h.authorization = "bearer" /\ h.token.valid = "ok"
           THEN \A x \in last'.rows :
                  x.user_id = h.token.id /\ x.guest_session_id = NULL
           ELSE last'.status = 401 /\ db' = db /\ conn' = conn]_vars

---------------------------------------------------------------------------
\* SpecAdHoc: a registered user and a guest place orders of one ad-hoc
\* line for an available product, or the user an order of one cart line,
\* while the user fills the cart.

AdHocRequests ==
  LET L == {AdHocLine(p, Today, Today + 3, 2) : p \in ProductIds}
  IN  Requests(Client(1), {}, L, NULL, NoContact)
        \cup Requests(Guest(11), {}, L, 11, GoodContact)

NextAdHoc ==
  \/ AddToCart({Client(1)}, {1}, {Today}, {Today + 1}, {1})
  \/ Place({1}, AdHocRequests \cup RaceRequests)
  \/ PlaceSteps(1, {FALSE})

SpecAdHoc == Init /\ [][NextAdHoc]_vars

\* C20: an answered Place Order request of one ad-hoc line for an available
\* product, with start before end and quantity at least 1, is answered 200,
\* has deleted no cart row, and an order item of its order carries the
\* product's name and image, the line's dates and quantity and
\* ceil(days) * price_per_day * quantity as total.
C20_AdHocLineSucceeds ==
  \A r \in Slots :
    LET q == req[r]
        line == q.cartItems[1]
        p == db.products[line.productId]
    IN  (/\ q.pc = "done"
         /\ Len(q.cartItems) = 1
         /\ line.cartId = NULL
         /\ line.productId \in ProductIds
         /\ p.available
         /\ DateLT(line.start_date, line.end_date)
         /\ line.quantity >= 1) =>
          /\ q.status = 200
          /\ q.deleted = {}
          /\ \E x \in db.order_items \cup UNION {View(c).order_items : c \in Conns} :
               /\ x.order_id = q.orderId
               /\ x.product_name = p.name
               /\ x.image_url = p.image_url
               /\ x.start_date = line.start_date
               /\ x.end_date = line.end_date
               /\ x.quantity = line.quantity
               /\ x.total_price =
                    Ceil(line.end_date - line.start_date, UnitsPerDay)
                      * p.price_per_day * line.quantity

---------------------------------------------------------------------------
\* SpecFetch: a registered user or a guest places an order of one cart
\* line; after it is answered the admin renames the product or changes
\* its image, and the callers fetch orders.

FetchRequests ==
  RaceRequests \cup Requests(Guest(11), {}, {CartLine(1, 1)}, 11, GoodContact)

RenameProducts(P, N, U) ==
  \E id \in P, name \in N, image_url \in U, c1 \in Conns, c2 \in Conns :
    ProductEdit(Admin, 13, id, name, image_url, Undefined, Undefined, TRUE, c1, c2)

FetchOrders(H) ==
  \/ \E h \in H, c \in Conns : OrdersMine(h, 13, c)
  \/ \E c \in Conns : OrdersAll(Admin, 13, c)

NextFetch ==
  \/ (req[1].pc = "idle" /\ nextId.cart = 1)
       /\ AddToCart({Client(1), Guest(11)}, {1}, {Today}, {Today + 3}, {1})
  \/ Place({1}, FetchRequests)
  \/ PlaceSteps(1, {FALSE})
  \/ (LogRoom /\ Answered) /\ RenameProducts({1}, {Undefined, 7}, {Undefined, 8})
  \/ Answered /\ FetchOrders({Client(1), Guest(11)})

SpecFetch == Init /\ [][NextFetch]_vars

\* The order item rows that are committed or visible on some connection.
AllOrderItems == db.order_items \cup UNION {View(c).order_items : c \in Conns}

\* C21: every item of every order that a fetch of orders returns carries
\* the product name and image stored in its order_items row when the order
\* was placed.
C21_FetchedItemsShowCapturedNameAndImage ==
  [][(last'.handler \in {"ordersMine", "ordersAll"} /\ last'.status = 200) =>
       \A row \in last'.rows : \A item \in row.items :
         \E oi \in AllOrderItems :
           /\ oi.order_id = row.order.id
           /\ oi.product_id = item.product_id
           /\ item.product_name = oi.product_name
           /\ item.image_url = oi.image_url]_vars

\* C22: a fetch of own orders by a caller the Auth Gate resolved is
\* answered 200 and returns only orders owned by the caller, among them
\* every committed order the caller owns with all its committed items.
C22_OwnOrdersOnly ==
  [][(last'.handler = "ordersMine" /\ authenticate(last'.h, 13).status = 0) =>
       LET a == authenticate(last'.h, 13)
           Owns(o) == IF a.user.id # NULL THEN o.user_id = a.user.id
                      ELSE o.user_id = NULL
                             /\ o.guest_session_id = a.guestSessionId
       IN  /\ last'.status = 200
           /\ \A row \in last'.rows : Owns(row.order)
           /\ \A o \in db.orders : Owns(o) =>
                \E row \in last'.rows :
                  /\ row.order = o
                  /\ \A oi \in db.order_items : oi.order_id = o.id =>
                       \E item \in row.items :
                         /\ item.product_id = oi.product_id
                         /\ item.quantity = oi.quantity
                         /\ item.total_price = oi.total_price]_vars

---------------------------------------------------------------------------
\* SpecUsers: visitors register, users update their profiles and the
\* admin updates user emails.

Emails == {"u@x.y", "w@x.y"}

RegisterUsers(E) ==
  \E email \in E, password \in {"short", "secret"}, c1 \in Conns, c2 \in Conns :
    Register("user", email, password, "addr", "555", c1, c2)

UpdateProfiles(H, E) ==
  \E h \in H, email \in E, c1 \in Conns, c2 \in Conns :
    ProfileUpdate(h, 13, "user", email, "addr", "555", c1, c2)

UpdateEmails(H, I, E) ==
  \E h \in H, id \in I, email \in E, c1 \in Conns, c2 \in Conns :
    AdminEmailUpdate(h, 13, id, email, c1, c2)

NextUsers ==
  \/ RegisterUsers(Emails \cup {""})
  \/ UpdateProfiles({Client(1), Client(2), Guest(11)}, Emails \cup {"v@x.y", ""})
  \/ UpdateEmails({Admin, Client(1)}, {2, 3}, Emails \cup {"bad"})

SpecUsers == Init /\ [][NextUsers]_vars

---------------------------------------------------------------------------
\* SpecCartAdd: a registered user adds to the cart and updates quantities
\* with good and bad bodies while the admin switches the product's
\* availability.

NextCartAdd ==
  \/ AddToCart({Client(1)}, {NULL, 1, MaxProducts},
               {Today - 1, Today, InvalidDate}, {Today, Today + 1, InvalidDate},
               {NULL, 1, OneAndAHalf})
  \/ ChangeCart({Client(1)}, {NULL, -1, 2, OneAndAHalf})
  \/ SetAvailable({1}, BOOLEAN)

SpecCartAdd == Init /\ [][NextCartAdd]_vars

---------------------------------------------------------------------------
\* Error responses and the server mode (src/index.js 204-228, 399-407)

\* The global error handler: errors passed to next(err), such as a body the
\* JSON parser rejects.  It answers 500 and includes the error message and
\* stack only outside production.
errorHandler(message) ==
  /\ RespondTo("errorHandler", 500, NoHeader, NULL, NULL,
               IF NODE_ENV = "production" THEN "" ELSE message, {})
  /\ StoreUnchanged
  /\ UNCHANGED req

\* The server starts in either mode.
InitMode ==
  /\ db = [products |-> InitProducts, cart |-> {}, orders |-> {}, order_items |-> {},
           users |-> {Users[u] : u \in DOMAIN Users}]
  /\ conn = [c \in Conns |-> [intx |-> FALSE, w |-> <<>>, by |-> NULL]]
  /\ nextId = [cart |-> 1, orders |-> 1, order_items |-> 1,
               products |-> Cardinality(ProductIds) + 1,
               users |-> Cardinality(DOMAIN Users) + 1]
  /\ req = [r \in Slots |-> IdleRequest]
  /\ last = Idle
  /\ NODE_ENV \in {"production", "development"}

MalformedBody(M) ==
  \E message \in M : errorHandler(message)

NextMode ==
  \/ AddToCart({Client(1)}, {1}, {Today}, {Today + 3}, {1})
  \/ Place({1}, RaceRequests)
  \/ PlaceSteps(1, BOOLEAN)
  \/ MalformedBody({"Unexpected token"})

SpecMode == InitMode /\ [][NextMode]_vars

\* C25: in production mode no error response carries internal details:
\* neither an answered Place Order nor a response of the global error
\* handler contains the underlying error message.
C25_NoDetailsInProduction ==
  NODE_ENV = "production" =>
    /\ \A r \in Slots :
         req[r].pc = "done" /\ req[r].status >= 400 => req[r].details = ""
    /\ last.handler = "errorHandler" => last.value = ""

---------------------------------------------------------------------------
\* The connection of a Place Order transaction (src/index.js 333-403)

\* One statement of request r after its START TRANSACTION, run on
\* connection c.
PlaceStatement(r, c) ==
  \/ PlaceInsertOrder(r, c)
  \/ PlaceFetchCart(r, c)
  \/ PlaceFetchProduct(r, c)
  \/ \E storeError \in BOOLEAN : PlaceInsertItem(r, c, storeError)
  \/ PlaceDeleteCart(r, c)
  \/ PlaceCommit(r, c)
  \/ PlaceRollback(r, c)

\* C26: every statement of a Place Order request after its START
\* TRANSACTION runs on the connection that holds the request's open
\* transaction, and while a transaction is open on a connection only the
\* request that opened it adds statements to it.
C26_OneConnectionPerTransaction ==
  [][/\ \A r \in Slots :
          (req[r].began /\ req[r].pc \notin {"idle", "done"} /\ req'[r] # req[r]) =>
            \E c \in Conns :
              conn[c].intx /\ conn[c].by = r /\ PlaceStatement(r, c)
     /\ \A c \in Conns :
          (conn[c].intx /\ conn'[c].intx /\ conn'[c].w # conn[c].w) =>
            req'[conn[c].by] # req[conn[c].by]]_vars

\* C27: the ROLLBACK of a failing Place Order discards only writes of that
\* request (its Order row, its OrderItems and its cart deletions): no write
\* of a different request, such as a cart addition, is undone by it.
C27_RollbackUndoesOnlyOwnWrites ==
  [][\A r \in Slots :
       (req[r].pc = "rollback" /\ req'[r].pc = "done") =>
         \A c \in Conns :
           conn'[c] # conn[c] =>
             \A k \in 1..Len(conn[c].w) :
               LET op == conn[c].w[k]
               IN  \/ op.t = "insOrder" /\ op.row.id = req[r].orderId
                   \/ op.t = "insItem" /\ op.row.order_id = req[r].orderId
                   \/ op.t = "delCart" /\ op.row.id \in req[r].deleted]_vars

\* C28: once a Place Order request has responded 200 with its order id, the
\* Order row and one OrderItem per line are committed and the cart rows its
\* lines reference are gone, and a read on any pooled connection sees just
\* that, in every later state.
C28_SuccessMeansCommitted ==
  \A r \in Slots :
    (req[r].pc = "done" /\ req[r].status = 200) =>
      \A v \in {db} \cup {View(c) : c \in Conns} :
        /\ \E o \in v.orders : o.id = req[r].orderId
        /\ Cardinality({i \in v.order_items : i.order_id = req[r].orderId})
             = Len(req[r].cartItems)
        /\ \A j \in 1..Len(req[r].cartItems) :
             \A x \in v.cart : x.id # req[r].cartItems[j].cartId

---------------------------------------------------------------------------
\* The product of a cart line (src/index.js 343-385)

\* User 1 places one line for their cart item 1, which holds product 1; the
\* line names product 1, product 2 or no product.
LineRequests ==
  Requests(Client(1), {}, {CartLine(1, 1), CartLine(1, 2), CartLine(1, NULL)},
           NULL, NoContact)

NextLine ==
  \/ nextId.cart = 1 /\ AddToCart({Client(1)}, {1}, {Today}, {Today + 3}, {1})
  \/ Place({1}, LineRequests)
  \/ PlaceSteps(1, {FALSE})

SpecLine == Init /\ [][NextLine]_vars

\* C29: a line that references a cart item of the caller is answered 200,
\* and the OrderItem created for it records the product of that cart item
\* (its id, name, unit price and image), whatever productId the line
\* carries.
C29_CartLineRecordsCartProduct ==
  \A r \in Slots :
    (req[r].pc = "done" /\ req[r].cartItem.id # NULL) =>
      /\ req[r].status = 200
      /\ \A c \in Conns :
           \A i \in View(c).order_items :
             i.order_id = req[r].orderId =>
               /\ i.product_id = req[r].cartItem.product_id
               /\ i.product_name = req[r].cartItem.product_name
               /\ i.price_per_day = req[r].cartItem.price_per_day
               /\ i.image_url = req[r].cartItem.image_url

---------------------------------------------------------------------------
\* The guest owner of a placement (src/index.js 290-303, src/utils/auth.js 8-34)

\* Guest session 11 has cart item 1.  The order is placed by session 11
\* with its id in the body, by session 11 with no guestSessionId in the
\* body, or by session 12 with the id 11 in the body.
OwnerRequests ==
  Requests(Guest(11), {}, {CartLine(1, 1)}, 11, GoodContact)
    \cup Requests(Guest(11), {}, {CartLine(1, 1)}, NULL, GoodContact)
    \cup Requests(Guest(12), {}, {CartLine(1, 1)}, 11, GoodContact)

NextOwner ==
  \/ nextId.cart = 1 /\ AddToCart({Guest(11)}, {1}, {Today}, {Today + 3}, {1})
  \/ Place({1}, OwnerRequests)
  \/ PlaceSteps(1, {FALSE})

SpecOwner == Init /\ [][NextOwner]_vars

\* C30: for a caller without a user, the owner under which Place Order
\* looks up cart items and records the Order is the guest session id the
\* Auth Gate resolved for the request: the cart item fetched for a line and
\* the Order row both belong to that session.
C30_GuestOwnerIsResolvedSession ==
  \A r \in Slots :
    (req[r].pc # "idle" /\ req[r].userId = NULL
       /\ authenticate(req[r].h, 13).status = 0) =>
      LET g == authenticate(req[r].h, 13).guestSessionId
      IN  /\ req[r].guestSessionId = g
          /\ req[r].cartItem.id # NULL => req[r].cartItem.guest_session_id = g
          /\ \A c \in Conns :
               \A o \in View(c).orders :
                 o.id = req[r].orderId => o.guest_session_id = g

====
